---- MODULE Spec2Model ----
(***************************************************************************)
(* Model of RuckTracker/api/achievements.rs: the TTL response cache        *)
(* (cache_get / cache_set over Arc<Mutex<HashMap>>), the GET /achievements *)
(* handler (cache lookup, store query, unit-preference filter, cache       *)
(* fill) run by concurrent requests, and the criteria predicate            *)
(* check_criteria.                                                         *)
(***************************************************************************)
EXTENDS Integers, Sequences, FiniteSets, TLC

(***************************************************************************)
(* Bounds of the model.                                                    *)
(***************************************************************************)
\* the clock advances in steps of CACHE_TTL / TickDivisor seconds
TickDivisor == 2
\* the clock stops after this many steps
MaxTicks == 3
\* longest array of items the filter specification draws
MaxLen == 3
\* largest number used for criteria targets and session distances
MaxNum == 2

(***************************************************************************)
(* Program constants.                                                      *)
(***************************************************************************)
\* cache_set(&cache, cache_key, ..., 1800)
CACHE_TTL == 1800

TickStep == CACHE_TTL \div TickDivisor
MaxClock == MaxTicks * TickStep

(***************************************************************************)
(* Option<T>: None is the empty sequence, Some(v) the one-element one.     *)
(***************************************************************************)
None == <<>>
Some(v) == <<v>>
IsSome(o) == o # <<>>
Unwrap(o) == o[1]

(***************************************************************************)
(* serde_json::Value.                                                      *)
(***************************************************************************)
JNull == [t |-> "null"]
JBool(b) == [t |-> "bool", b |-> b]
JNum(n) == [t |-> "num", n |-> n]
JStr(s) == [t |-> "str", s |-> s]
JArray(a) == [t |-> "array", a |-> a]
JObject(m) == [t |-> "object", m |-> m]

\* Value::as_str, Value::as_f64, Value::as_array
as_str(v) == IF v.t = "str" THEN Some(v.s) ELSE None
as_f64(v) == IF v.t = "num" THEN Some(v.n) ELSE None
as_array(v) == IF v.t = "array" THEN Some(v.a) ELSE None

\* HashMap::get on a map modelled as a function whose DOMAIN is its key set
MapGet(m, k) == IF k \in DOMAIN m THEN Some(m[k]) ELSE None

(***************************************************************************)
(* The cache table: HashMap<String, (Value, DateTime<Utc>)>, a function    *)
(* from the keys present to <<value, expiry>>.                             *)
(***************************************************************************)
EmptyTable == [k \in {} |-> <<>>]

\* cache_get with a later-or-equal comparison (the boundary returned)
cache_get_inclusive(table, key, now) ==
    [ret |-> IF key \in DOMAIN table /\ now <= table[key][2]
             THEN Some(table[key][1]) ELSE None,
     table |-> table]

\* cache_get that ignores the expiry
cache_get_noexpiry(table, key, now) ==
    [ret |-> IF key \in DOMAIN table THEN Some(table[key][1]) ELSE None,
     table |-> table]

\* cache_get that removes the entry it finds expired
cache_get_evict(table, key, now) ==
    [ret |-> IF key \in DOMAIN table /\ now < table[key][2]
             THEN Some(table[key][1]) ELSE None,
     table |-> IF key \in DOMAIN table /\ now >= table[key][2]
               THEN [k \in DOMAIN table \ {key} |-> table[k]]
               ELSE table]

\* cache_get: the value returned and the table it leaves (lines 58-63; the
\* guard taken at line 57 is modelled by the lock of the request steps)
cache_get(table, key, now) ==
    [ret |-> IF key \in DOMAIN table /\ now < table[key][2]
             THEN Some(table[key][1]) ELSE None,
     table |-> table]

\* cache_set that keeps the expiry of an entry already present
cache_set_keepexpiry(table, key, value, ttl_seconds, now) ==
    [k \in DOMAIN table \cup {key} |->
        IF k = key
        THEN <<value, IF key \in DOMAIN table THEN table[key][2] ELSE now + ttl_seconds>>
        ELSE table[k]]

\* cache_set that writes the entry under every key present (a shared key)
cache_set_allkeys(table, key, value, ttl_seconds, now) ==
    [k \in DOMAIN table \cup {key} |-> <<value, now + ttl_seconds>>]

\* cache_set that leaves an entry already present alone
cache_set_ifabsent(table, key, value, ttl_seconds, now) ==
    [k \in DOMAIN table \cup {key} |->
        IF k \in DOMAIN table THEN table[k] ELSE <<value, now + ttl_seconds>>]

\* cache_set: the table after the insert of line 69
cache_set(table, key, value, ttl_seconds, now) ==
    [k \in DOMAIN table \cup {key} |->
        IF k = key THEN <<value, now + ttl_seconds>> ELSE table[k]]

(***************************************************************************)
(* Achievement records and their (de)serialisation.                        *)
(***************************************************************************)
\* Option::and_then, Option::unwrap_or
unwrap_or(o, d) == IF IsSome(o) THEN Unwrap(o) ELSE d

\* serde_json::from_value::<Achievement>(item).ok(): the required fields must
\* be present with their types (id: i32, is_active: bool); the Option field
\* unit_preference may be missing or null, and must otherwise be a string.
from_value(item) ==
    IF /\ item.t = "object"
       /\ "id" \in DOMAIN item.m /\ item.m["id"].t = "num"
       /\ "is_active" \in DOMAIN item.m /\ item.m["is_active"].t = "bool"
       /\ ("unit_preference" \in DOMAIN item.m
             => item.m["unit_preference"].t \in {"null", "str"})
    THEN Some([id |-> item.m["id"].n,
               is_active |-> item.m["is_active"].b,
               unit_preference |->
                   IF "unit_preference" \in DOMAIN item.m
                   THEN as_str(item.m["unit_preference"])
                   ELSE None])
    ELSE None

\* serde_json::to_value(&Achievement): every field is written, None as null
to_value(ach) ==
    JObject([id |-> JNum(ach.id),
             is_active |-> JBool(ach.is_active),
             unit_preference |-> IF IsSome(ach.unit_preference)
                                 THEN JStr(Unwrap(ach.unit_preference))
                                 ELSE JNull])

\* serde_json::to_value(&Vec<Achievement>)
RECURSIVE to_value_vec(_)
to_value_vec(v) ==
    IF v = <<>> THEN <<>> ELSE <<to_value(Head(v))>> \o to_value_vec(Tail(v))

vec_to_value(v) == JArray(to_value_vec(v))

(***************************************************************************)
(* achievements_handler, the pure parts.                                   *)
(***************************************************************************)
\* line 101: query.get("unit_preference").cloned().unwrap_or("metric")
unit_preference_of(q) == unwrap_or(MapGet(q, "unit_preference"), "metric")

\* a cache key that leaves the unit system out
cache_key_shared(unit) == "achievements:all"

\* line 102: format!("achievements:all:{}", unit_preference)
cache_key_of(unit) == "achievements:all:" \o unit

\* the closure's test with the None case left out
keep_achievement_strict(ach, unit) == ach.unit_preference = Some(unit)

\* line 113: the closure's test on a parsed achievement
keep_achievement(ach, unit) ==
    ach.unit_preference = None \/ ach.unit_preference = Some(unit)

\* a filter that stops at the first item that does not parse
RECURSIVE filter_map_stop(_, _)
filter_map_stop(items, unit) ==
    IF items = <<>> THEN <<>>
    ELSE LET ach == from_value(Head(items))
         IN  IF ~IsSome(ach) THEN <<>>
             ELSE IF keep_achievement(Unwrap(ach), unit)
             THEN <<Unwrap(ach)>> \o filter_map_stop(Tail(items), unit)
             ELSE filter_map_stop(Tail(items), unit)

\* lines 111-118: filter_map over the array, in order, then collect
RECURSIVE filter_map(_, _)
filter_map(items, unit) ==
    IF items = <<>> THEN <<>>
    ELSE LET ach == from_value(Head(items))
             rest == filter_map(Tail(items), unit)
         IN  IF IsSome(ach) /\ keep_achievement(Unwrap(ach), unit)
             THEN <<Unwrap(ach)>> \o rest
             ELSE rest

(***************************************************************************)
(* check_criteria (lines 131-151).  Numbers are the f64 read by as_f64;    *)
(* the model draws them from a small range of integers.                    *)
(***************************************************************************)
\* the comparison with the boundary excluded
distance_reaches_strict(distance, target) == distance > target

\* line 146
distance_reaches(distance, target) == distance >= target

\* the fallback arm granting the achievement
unknown_kind_granted == TRUE

\* line 149: the `_` arm
unknown_kind == FALSE

\* a default threshold that no distance of the model reaches
default_target_high == MaxNum + 1

\* line 144: unwrap_or(0.0) of the target
default_target == 0

\* line 145: unwrap_or(0.0) of the distance
default_distance == 0

\* a "first_ruck" arm that never grants
first_ruck_never(session, user_stats) == FALSE

\* a "first_ruck" arm that grants only to a user without lifetime distance
first_ruck_by_stats(session, user_stats) == "total_distance_km" \notin DOMAIN user_stats

\* line 142: the "first_ruck" arm
first_ruck_granted(session, user_stats) == TRUE

check_criteria(user_id, session, achievement, user_stats) ==
    LET criteria == achievement.criteria
        ty == MapGet(criteria, "type")
        criteria_type == IF IsSome(ty) THEN unwrap_or(as_str(Unwrap(ty)), "") ELSE ""
        tg == MapGet(criteria, "target")
        target == IF IsSome(tg) THEN unwrap_or(as_f64(Unwrap(tg)), default_target)
                  ELSE default_target
        ds == MapGet(session, "distance_km")
        distance == IF IsSome(ds) THEN unwrap_or(as_f64(Unwrap(ds)), default_distance)
                    ELSE default_distance
    IN  CASE criteria_type = "first_ruck" -> first_ruck_granted(session, user_stats)
          [] criteria_type = "single_session_distance" -> distance_reaches(distance, target)
          [] OTHER -> unknown_kind

(***************************************************************************)
(* State.                                                                  *)
(***************************************************************************)
VARIABLES
    cache,            \* the shared table (line 14, created at line 164)
    clock,            \* Utc::now(), in seconds
    lock,             \* the table's Mutex: None, or Some(r) while r holds the guard
    pc,               \* pc[r]: where request r stands in achievements_handler
    unit_preference,  \* unit_preference[r] (line 101)
    cache_key,        \* cache_key[r] (line 102)
    fetched,          \* fetched[r]: the store's reply to r's query, once received
    filtered,         \* filtered[r]: the Vec<Achievement> of line 111
    response,         \* response[r]: the HttpResponse the handler returns
    lastGet,          \* history: the latest cache_get call and what it returned
    lastSet,          \* history: per key, the latest completed cache_set
    achievement,      \* check_criteria: its achievement argument
    session,          \* check_criteria: its session argument
    user_stats,       \* check_criteria: its user_stats argument
    user_id,          \* check_criteria: its user_id argument
    verdict,          \* check_criteria: the boolean returned
    recheck,          \* check_criteria: a second call on the same criteria and session
    listing,          \* the filter applied to a drawn array: input and output
    user_achievements,\* the store's UserAchievement records, in insertion order
    resolution        \* resolution[s]: where unlock resolution s stands

cacheVars == <<cache, clock, lock, lastGet, lastSet>>
reqVars == <<pc, unit_preference, cache_key, fetched, filtered, response>>
critVars == <<achievement, session, user_stats, user_id, verdict, recheck>>
unlockVars == <<user_achievements, resolution>>
vars == <<cache, clock, lock, lastGet, lastSet, pc, unit_preference,
          cache_key, fetched, filtered, response, achievement, session,
          user_stats, user_id, verdict, recheck, listing, unlockVars>>

\* the requests served concurrently (actix tasks on the worker threads)
Reqs == {"r1", "r2"}

\* the two unit systems of the catalogue
Units == {"metric", "imperial"}

\* the query maps a request may carry: no unit_preference, or one of the systems
Queries == {[k \in {} |-> ""]} \cup {[unit_preference |-> u] : u \in Units}

\* the keys the handler builds
HandlerKeys == {cache_key_of(u) : u \in Units}

\* the state of the parts a specification does not exercise
IdleRequests ==
    /\ pc = [r \in Reqs |-> "idle"]
    /\ unit_preference = [r \in Reqs |-> None]
    /\ cache_key = [r \in Reqs |-> None]
    /\ fetched = [r \in Reqs |-> None]
    /\ filtered = [r \in Reqs |-> None]
    /\ response = [r \in Reqs |-> None]

NoCriteria ==
    /\ achievement = None
    /\ session = None
    /\ user_stats = None
    /\ user_id = None
    /\ verdict = None
    /\ recheck = None

\* the unlock resolutions running concurrently
Resolvers == {"s1", "s2"}

IdleResolution ==
    [pc |-> "idle", user_id |-> None, session |-> None, earned |-> {},
     todo |-> <<>>, newly |-> <<>>]

\* no UserAchievement is stored and no resolution is running
NoUnlocks ==
    /\ user_achievements = <<>>
    /\ resolution = [s \in Resolvers |-> IdleResolution]

\* line 164: the table starts empty; no guard is held
EmptyCache ==
    /\ cache = EmptyTable
    /\ clock = 0
    /\ lock = None
    /\ lastGet = None
    /\ lastSet = [k \in HandlerKeys |-> None]

(***************************************************************************)
(* The clock.                                                              *)
(***************************************************************************)
Tick ==
    /\ clock + TickStep <= MaxClock
    /\ clock' = clock + TickStep
    /\ UNCHANGED <<cache, lock, lastGet, lastSet, reqVars, critVars, listing, unlockVars>>

(***************************************************************************)
(* CacheSpec: cache_get and cache_set called one after the other with      *)
(* keys, values and TTLs drawn from small sets.                            *)
(***************************************************************************)
CacheValues == {JStr("A"), JStr("B")}

\* TTLs handed to cache_set: negative, zero, one clock step, the handler's
TTLs == {0 - TickStep, 0, TickStep, CACHE_TTL}

CallCacheGet(k) ==
    /\ lock = None
    /\ LET got == cache_get(cache, k, clock)
       IN  /\ cache' = got.table
           /\ lastGet' = Some([key |-> k, now |-> clock, ret |-> got.ret,
                               before |-> cache])
    /\ UNCHANGED <<clock, lock, lastSet, reqVars, critVars, listing, unlockVars>>

CallCacheSet(k, v, ttl) ==
    /\ lock = None
    /\ cache' = cache_set(cache, k, v, ttl, clock)
    /\ lastSet' = [lastSet EXCEPT ![k] =
                      Some([value |-> v, at |-> clock, ttl |-> ttl])]
    /\ lastGet' = None
    /\ UNCHANGED <<clock, lock, reqVars, critVars, listing, unlockVars>>

CacheInit == EmptyCache /\ IdleRequests /\ NoUnlocks /\ NoCriteria /\ listing = None

CacheNext ==
    \/ \E k \in HandlerKeys : CallCacheGet(k)
    \/ \E k \in HandlerKeys, v \in CacheValues, ttl \in TTLs : CallCacheSet(k, v, ttl)
    \/ Tick

CacheSpec == CacheInit /\ [][CacheNext]_vars

(***************************************************************************)
(* Claims about the cache, checked under CacheSpec.                        *)
(***************************************************************************)
\* C1: cache_get(k) returns the stored value exactly when k has an entry and
\* now < expires_at; it returns None when k has no entry or now >= expires_at,
\* the boundary now = expires_at included.
C1_NoExpiredRead ==
    IsSome(lastGet) =>
        LET g == Unwrap(lastGet)
            t == g.before
            live == g.key \in DOMAIN t /\ g.now < t[g.key][2]
        IN  /\ live => g.ret = Some(t[g.key][1])
            /\ ~live => g.ret = None

\* a cache_get made exactly at the entry's expiry returned None
C1_Witness ==
    /\ IsSome(lastGet)
    /\ LET g == Unwrap(lastGet)
       IN  /\ g.key \in DOMAIN g.before
           /\ g.now = g.before[g.key][2]
           /\ g.ret = None

\* C2: for t > 0, a cache_get(k) after cache_set(k, v, t) with no clock advance
\* and no cache_set in between returns v; once the clock is more than t past
\* that cache_set, still with no cache_set in between, it returns None.
C2_SetThenGet ==
    IsSome(lastGet) =>
        LET g == Unwrap(lastGet)
            s == lastSet[g.key]
        IN  (IsSome(s) /\ Unwrap(s).ttl > 0) =>
                /\ g.now = Unwrap(s).at => g.ret = Some(Unwrap(s).value)
                /\ g.now > Unwrap(s).at + Unwrap(s).ttl => g.ret = None

\* an entry set with a positive TTL was read after more than that TTL had
\* passed: the entry is still in the table and the read returned None
C2_Witness ==
    /\ IsSome(lastGet)
    /\ LET g == Unwrap(lastGet)
           s == lastSet[g.key]
       IN  /\ IsSome(s) /\ Unwrap(s).ttl > 0
           /\ g.now > Unwrap(s).at + Unwrap(s).ttl
           /\ g.key \in DOMAIN g.before
           /\ g.ret = None

\* C3: the keys of distinct unit systems differ, and a cache_set on one key
\* leaves the entry of every other key, and what cache_get returns for it,
\* unchanged.
C3_KeyIsolation ==
    /\ \A u1, u2 \in Units : u1 # u2 => cache_key_of(u1) # cache_key_of(u2)
    /\ [][\A k \in HandlerKeys :
            (lastSet' # lastSet /\ lastSet'[k] = lastSet[k]) =>
                /\ MapGet(cache', k) = MapGet(cache, k)
                /\ cache_get(cache', k, clock').ret = cache_get(cache, k, clock).ret]_vars

\* both unit systems hold a live entry, with different values
C3_Witness ==
    /\ cache_key_of("metric") \in DOMAIN cache
    /\ cache_key_of("imperial") \in DOMAIN cache
    /\ cache[cache_key_of("metric")][1] # cache[cache_key_of("imperial")][1]
    /\ IsSome(cache_get(cache, cache_key_of("metric"), clock).ret)
    /\ IsSome(cache_get(cache, cache_key_of("imperial"), clock).ret)

(***************************************************************************)
(* CritSpec: check_criteria applied to drawn achievements and sessions.    *)
(***************************************************************************)
\* a HashMap with at most the two keys k1, k2: an Option per key, None = missing
MapOf2(k1, o1, k2, o2) ==
    [k \in (IF IsSome(o1) THEN {k1} ELSE {}) \cup (IF IsSome(o2) THEN {k2} ELSE {})
        |-> IF k = k1 THEN Unwrap(o1) ELSE Unwrap(o2)]

Numbers == (0 - 1)..MaxNum

\* criteria["type"]: missing, not a string, a recognised kind, another kind
TypeOpts ==
    {None, Some(JNull), Some(JNum(1)), Some(JStr("")), Some(JStr("first_ruck")),
     Some(JStr("single_session_distance")), Some(JStr("cumulative_distance"))}

\* a numeric field: missing, null, a string, a number
NumOpts == {None, Some(JNull), Some(JStr("1"))} \cup {Some(JNum(n)) : n \in Numbers}

CriteriaMaps == {MapOf2("type", ty, "target", tg) : ty \in TypeOpts, tg \in NumOpts}

Sessions == {MapOf2("distance_km", d, "duration", None) : d \in NumOpts}

UserStats == {[k \in {} |-> 0], [total_distance_km |-> MaxNum]}

UserIds == {"user-a", "user-b"}

CallCheckCriteria ==
    /\ verdict = None
    /\ verdict' = Some(check_criteria(Unwrap(user_id), Unwrap(session),
                                      Unwrap(achievement), Unwrap(user_stats)))
    /\ UNCHANGED <<cacheVars, reqVars, achievement, session, user_stats, user_id,
                   recheck, listing, unlockVars>>

\* a later call on the same achievement and session, for any user and stats
CallCheckCriteriaAgain(uid, stats) ==
    /\ IsSome(verdict)
    /\ recheck = None
    /\ recheck' = Some([user_id |-> uid, user_stats |-> stats,
                        ret |-> check_criteria(uid, Unwrap(session),
                                               Unwrap(achievement), stats)])
    /\ UNCHANGED <<cacheVars, reqVars, achievement, session, user_stats, user_id,
                   verdict, listing, unlockVars>>

CritInit ==
    /\ EmptyCache /\ IdleRequests /\ NoUnlocks /\ listing = None
    /\ \E c \in CriteriaMaps : achievement = Some([criteria |-> c])
    /\ \E s \in Sessions : session = Some(s)
    /\ \E u \in UserStats : user_stats = Some(u)
    /\ \E i \in UserIds : user_id = Some(i)
    /\ verdict = None
    /\ recheck = None

\* between the calls the clock may advance and the cache may be filled
CritNext ==
    \/ CallCheckCriteria
    \/ \E uid \in UserIds, stats \in UserStats : CallCheckCriteriaAgain(uid, stats)
    \/ CallCacheSet(cache_key_of("metric"), JStr("A"), CACHE_TTL)
    \/ Tick

CritSpec == CritInit /\ [][CritNext]_vars

\* what the drawn criteria and session hold, read off the maps directly
CriteriaType ==
    LET c == Unwrap(achievement).criteria
    IN  IF "type" \in DOMAIN c /\ c["type"].t = "str" THEN Some(c["type"].s) ELSE None

TargetGiven ==
    LET c == Unwrap(achievement).criteria
    IN  IF "target" \in DOMAIN c /\ c["target"].t = "num" THEN Some(c["target"].n) ELSE None

DistanceGiven ==
    LET s == Unwrap(session)
    IN  IF "distance_km" \in DOMAIN s /\ s["distance_km"].t = "num"
        THEN Some(s["distance_km"].n) ELSE None

\* C4: with no "type", a "type" that is no string, or a string other than
\* "first_ruck" and "single_session_distance", check_criteria returns false
\* for every session and user_stats.
C4_FailClosed ==
    (IsSome(verdict) /\ CriteriaType \notin {Some("first_ruck"), Some("single_session_distance")})
        => verdict = Some(FALSE)

\* an achievement without "type" evaluated on an empty session and empty stats
C4_Witness ==
    /\ verdict = Some(FALSE)
    /\ "type" \notin DOMAIN Unwrap(achievement).criteria
    /\ DOMAIN Unwrap(session) = {}
    /\ DOMAIN Unwrap(user_stats) = {}

\* C5: for "single_session_distance" with target T and distance_km d,
\* check_criteria returns true exactly when d >= T.
C5_DistanceThreshold ==
    (/\ IsSome(verdict)
     /\ CriteriaType = Some("single_session_distance")
     /\ IsSome(TargetGiven) /\ IsSome(DistanceGiven))
        => (verdict = Some(TRUE) <=> Unwrap(DistanceGiven) >= Unwrap(TargetGiven))

\* the boundary d = T with a positive target evaluated to true
C5_Witness ==
    /\ verdict = Some(TRUE)
    /\ CriteriaType = Some("single_session_distance")
    /\ IsSome(TargetGiven) /\ IsSome(DistanceGiven)
    /\ Unwrap(TargetGiven) > 0
    /\ Unwrap(DistanceGiven) = Unwrap(TargetGiven)

\* C6: for "single_session_distance" a missing or non-numeric target and a
\* missing or non-numeric distance_km each count as 0: the call always returns
\* a boolean, equal to (distance_km or 0) >= (target or 0).
C6_MissingDefaultsToZero ==
    (IsSome(verdict) /\ CriteriaType = Some("single_session_distance"))
        => /\ Unwrap(verdict) \in BOOLEAN
           /\ Unwrap(verdict) = (unwrap_or(DistanceGiven, 0) >= unwrap_or(TargetGiven, 0))

\* a missing target with a missing distance evaluated to true
C6_Witness ==
    /\ verdict = Some(TRUE)
    /\ CriteriaType = Some("single_session_distance")
    /\ "target" \notin DOMAIN Unwrap(achievement).criteria
    /\ "distance_km" \notin DOMAIN Unwrap(session)

(***************************************************************************)
(* FilterSpec: the handler's unit-preference filter applied to drawn       *)
(* arrays of items.                                                        *)
(***************************************************************************)
\* an item of the store's array: "id" missing makes it fail to parse
ItemOf(id, up, active) ==
    JObject([k \in {"is_active"} \cup (IF IsSome(id) THEN {"id"} ELSE {})
                      \cup (IF IsSome(up) THEN {"unit_preference"} ELSE {})
        |-> CASE k = "is_active" -> JBool(active)
              [] k = "id" -> JNum(Unwrap(id))
              [] OTHER -> Unwrap(up)])

FilterItems ==
    {ItemOf(id, up, TRUE) :
        id \in {None, Some(1), Some(2)},
        up \in {None, Some(JNull), Some(JStr("metric")), Some(JStr("imperial"))}}

SeqsUpTo(S, n) == UNION {[1..m -> S] : m \in 0..n}

ApplyFilter ==
    /\ IsSome(listing)
    /\ Unwrap(listing).out = None
    /\ listing' = Some([Unwrap(listing) EXCEPT
           !.out = Some(filter_map(Unwrap(listing).data,
                                   unit_preference_of(Unwrap(listing).query)))])
    /\ UNCHANGED <<cacheVars, reqVars, critVars, unlockVars>>

FilterInit ==
    /\ EmptyCache /\ IdleRequests /\ NoUnlocks /\ NoCriteria
    /\ \E q \in Queries, d \in SeqsUpTo(FilterItems, MaxLen) :
          listing = Some([query |-> q, data |-> d, out |-> None])

FilterNext == ApplyFilter

FilterSpec == FilterInit /\ [][FilterNext]_vars

\* the requested unit system, read off the query
RequestedUnit(q) == IF "unit_preference" \in DOMAIN q THEN q["unit_preference"] ELSE "metric"

WellFormed(item) == "id" \in DOMAIN item.m

\* the item's unit_preference is absent (missing or null) or equals u
Applies(item, u) ==
    \/ "unit_preference" \notin DOMAIN item.m
    \/ item.m["unit_preference"] = JNull
    \/ item.m["unit_preference"] = JStr(u)

\* the item names u as its unit system
Names(item, u) ==
    "unit_preference" \in DOMAIN item.m /\ item.m["unit_preference"] = JStr(u)

\* the position in data of the j-th item that applies to u
NthKept(data, u, j) ==
    CHOOSE i \in 1..Len(data) :
        /\ Applies(data[i], u)
        /\ Cardinality({h \in 1..i : Applies(data[h], u)}) = j

\* C7: for a fetched list of well-formed achievements the handler's list is
\* exactly the subsequence of those whose unit_preference is absent or equals
\* the requested system ("metric" without the parameter), in the input's order.
C7_UnitFilter ==
    (/\ IsSome(listing) /\ IsSome(Unwrap(listing).out)
     /\ \A i \in 1..Len(Unwrap(listing).data) : WellFormed(Unwrap(listing).data[i]))
        => LET data == Unwrap(listing).data
               u == RequestedUnit(Unwrap(listing).query)
               out == Unwrap(Unwrap(listing).out)
           IN  /\ Len(out) = Cardinality({i \in 1..Len(data) : Applies(data[i], u)})
               /\ \A j \in 1..Len(out) :
                     LET item == data[NthKept(data, u, j)]
                     IN  /\ out[j].id = item.m["id"].n
                         /\ out[j].is_active = item.m["is_active"].b
                         /\ out[j].unit_preference \in {None, Some(u)}
                         /\ out[j].unit_preference = Some(u)
                               <=> Names(item, u)

\* the list [no unit, "metric", "imperial"] requested without the parameter
\* gave the first two items, in order
C7_Witness ==
    /\ IsSome(listing) /\ IsSome(Unwrap(listing).out)
    /\ Unwrap(listing).query = [k \in {} |-> ""]
    /\ Unwrap(listing).data = <<ItemOf(Some(1), None, TRUE),
                                ItemOf(Some(2), Some(JStr("metric")), TRUE),
                                ItemOf(Some(1), Some(JStr("imperial")), TRUE)>>
    /\ Unwrap(Unwrap(listing).out) =
          <<[id |-> 1, is_active |-> TRUE, unit_preference |-> None],
            [id |-> 2, is_active |-> TRUE, unit_preference |-> Some("metric")]>>

(***************************************************************************)
(* Spec: concurrent GET /achievements requests against the shared cache    *)
(* and the backing store.                                                  *)
(***************************************************************************)
\* arrays the store may hold: one achievement per unit system; one with an
\* item that does not parse and an inactive achievement
Catalogues ==
    {<<ItemOf(Some(1), None, TRUE), ItemOf(Some(2), Some(JStr("metric")), TRUE),
       ItemOf(Some(3), Some(JStr("imperial")), TRUE)>>,
     <<ItemOf(Some(3), Some(JStr("imperial")), TRUE), ItemOf(None, Some(JStr("metric")), TRUE),
       ItemOf(Some(1), Some(JNull), FALSE)>>}

\* what client.get(&url).send() and resp.json() can meet: no connection, a
\* 200 reply carrying the array, or a server-error reply whose body is no
\* JSON, a JSON object (an error document) or a JSON array
Bodies ==
    {[json |-> FALSE], [json |-> TRUE, value |-> JObject([message |-> JStr("error")])]}
    \cup {[json |-> TRUE, value |-> JArray(c)] : c \in Catalogues}

StoreReplies ==
    {[kind |-> "unreachable"]}
    \cup {[kind |-> "reply", status |-> 200, body |-> [json |-> TRUE, value |-> JArray(c)]] :
             c \in Catalogues}
    \cup {[kind |-> "reply", status |-> 500, body |-> b] : b \in Bodies}

\* execute_supabase_query: Err when send() fails (line 84) or the body is no
\* JSON (line 88); otherwise Ok(body), whatever the status
execute_supabase_query(reply) ==
    IF reply.kind = "unreachable" \/ ~reply.body.json
    THEN [ok |-> FALSE]
    ELSE [ok |-> TRUE, data |-> reply.body.value]

\* line 105 and line 121: the success response
SuccessResponse(achievements) ==
    [code |-> 200, status |-> "success", achievements |-> achievements]

\* line 123
ErrorResponse == [code |-> 500, error |-> "Failed to fetch achievements"]

\* a lock() that never waits
CanLock_always(l) == TRUE

\* cache.lock() (lines 57, 68) returns once no guard is held
CanLock(l) == l = None

\* a guard kept alive after the lookup
GuardAfterGet_held(r) == Some(r)

\* the guard of cache_get is dropped when it returns (line 64)
GuardAfterGet(r) == None

Set1(f, r, v) == [f EXCEPT ![r] = v]

\* lines 101-102, then the call of cache_get
StartRequest(r, q) ==
    /\ pc[r] = "idle"
    /\ unit_preference' = Set1(unit_preference, r, Some(unit_preference_of(q)))
    /\ cache_key' = Set1(cache_key, r, Some(cache_key_of(unit_preference_of(q))))
    /\ pc' = Set1(pc, r, "get_wait")
    /\ UNCHANGED <<cacheVars, fetched, filtered, response, critVars, listing, unlockVars>>

\* line 57
GetLock(r) ==
    /\ pc[r] = "get_wait"
    /\ CanLock(lock)
    /\ lock' = Some(r)
    /\ pc' = Set1(pc, r, "get_locked")
    /\ UNCHANGED <<cache, clock, lastGet, lastSet, unit_preference, cache_key,
                   fetched, filtered, response, critVars, listing, unlockVars>>

\* lines 58-64, then lines 104-106: a hit is the response, a miss goes on
GetBody(r) ==
    /\ pc[r] = "get_locked"
    /\ LET got == cache_get(cache, Unwrap(cache_key[r]), clock)
       IN  /\ cache' = got.table
           /\ IF IsSome(got.ret)
              THEN /\ response' = Set1(response, r, Some(SuccessResponse(Unwrap(got.ret))))
                   /\ pc' = Set1(pc, r, "done")
              ELSE /\ response' = response
                   /\ pc' = Set1(pc, r, "query")
    /\ lock' = GuardAfterGet(r)
    /\ UNCHANGED <<clock, lastGet, lastSet, unit_preference, cache_key,
                   fetched, filtered, critVars, listing, unlockVars>>

\* a query held back while another request fetches for the same key
SendQuery_singleflight(r) ==
    /\ pc[r] = "query"
    /\ \A o \in Reqs \ {r} : ~(pc[o] = "fetching" /\ cache_key[o] = cache_key[r])
    /\ pc' = Set1(pc, r, "fetching")
    /\ UNCHANGED <<cacheVars, unit_preference, cache_key, fetched, filtered,
                   response, critVars, listing, unlockVars>>

\* line 84: the query is sent and the task awaits the reply
SendQuery(r) ==
    /\ pc[r] = "query"
    /\ pc' = Set1(pc, r, "fetching")
    /\ UNCHANGED <<cacheVars, unit_preference, cache_key, fetched, filtered,
                   response, critVars, listing, unlockVars>>

\* lines 84-91 and 108-118, 123: the reply arrives; Err gives the error
\* response, Ok with no array panics at as_array().unwrap(), Ok with an array
\* is filtered
ReceiveReply(r, reply) ==
    /\ pc[r] = "fetching"
    /\ fetched' = Set1(fetched, r, Some(reply))
    /\ LET res == execute_supabase_query(reply)
       IN  IF ~res.ok
           THEN /\ response' = Set1(response, r, Some(ErrorResponse))
                /\ pc' = Set1(pc, r, "done")
                /\ filtered' = filtered
           ELSE IF as_array(res.data) = None
           THEN /\ pc' = Set1(pc, r, "panicked")
                /\ UNCHANGED <<response, filtered>>
           ELSE /\ filtered' = Set1(filtered, r,
                        Some(filter_map(Unwrap(as_array(res.data)), Unwrap(unit_preference[r]))))
                /\ pc' = Set1(pc, r, "set_wait")
                /\ response' = response
    /\ UNCHANGED <<cacheVars, unit_preference, cache_key, critVars, listing, unlockVars>>

\* line 68
SetLock(r) ==
    /\ pc[r] = "set_wait"
    /\ CanLock(lock)
    /\ lock' = Some(r)
    /\ pc' = Set1(pc, r, "set_locked")
    /\ UNCHANGED <<cache, clock, lastGet, lastSet, unit_preference, cache_key,
                   fetched, filtered, response, critVars, listing, unlockVars>>

\* lines 69-70, then line 121
SetBody(r) ==
    /\ pc[r] = "set_locked"
    /\ LET value == vec_to_value(Unwrap(filtered[r]))
       IN  /\ cache' = cache_set(cache, Unwrap(cache_key[r]), value, CACHE_TTL, clock)
           /\ lastSet' = [lastSet EXCEPT ![Unwrap(cache_key[r])] =
                             Some([value |-> value, at |-> clock, ttl |-> CACHE_TTL])]
           /\ response' = Set1(response, r, Some(SuccessResponse(value)))
    /\ lock' = None
    /\ pc' = Set1(pc, r, "done")
    /\ UNCHANGED <<clock, lastGet, unit_preference, cache_key, fetched, filtered,
                   critVars, listing, unlockVars>>

\* the response is written out (or the panicked task is dropped) and the
\* worker takes the next request
Finish(r) ==
    /\ pc[r] \in {"done", "panicked"}
    /\ pc' = Set1(pc, r, "idle")
    /\ unit_preference' = Set1(unit_preference, r, None)
    /\ cache_key' = Set1(cache_key, r, None)
    /\ fetched' = Set1(fetched, r, None)
    /\ filtered' = Set1(filtered, r, None)
    /\ response' = Set1(response, r, None)
    /\ UNCHANGED <<cacheVars, critVars, listing, unlockVars>>

Init == EmptyCache /\ IdleRequests /\ NoUnlocks /\ NoCriteria /\ listing = None

Next ==
    \/ \E r \in Reqs, q \in Queries : StartRequest(r, q)
    \/ \E r \in Reqs : GetLock(r)
    \/ \E r \in Reqs : GetBody(r)
    \/ \E r \in Reqs : SendQuery(r)
    \/ \E r \in Reqs, reply \in StoreReplies : ReceiveReply(r, reply)
    \/ \E r \in Reqs : SetLock(r)
    \/ \E r \in Reqs : SetBody(r)
    \/ \E r \in Reqs : Finish(r)
    \/ Tick

Spec == Init /\ [][Next]_vars

(***************************************************************************)
(* Claims about the handler, checked under Spec.                           *)
(***************************************************************************)
\* the store was unreachable or answered with a server error
FetchFailed(reply) ==
    IF reply.kind = "unreachable" THEN TRUE ELSE reply.status >= 500

\* C8: a request whose store fetch failed (store unreachable, or a server
\* error returned) leaves the cache table as it was: none of its steps from
\* the arrival of the failure on changes the table.
C8_FailuresNeverCached ==
    [][\A r \in Reqs :
          (/\ pc'[r] # pc[r]
           /\ IsSome(fetched'[r])
           /\ FetchFailed(Unwrap(fetched'[r])))
              => cache' = cache]_vars

\* the critical sections of cache_get and cache_set
InCritical(r) == pc[r] \in {"get_locked", "set_locked"}

\* C9: at most one request is inside the table's critical section, and it is
\* the holder of the lock; a cache_get that returns a value returns the value
\* of the latest completed cache_set on its key, within that set's expiry.
C9_ExclusiveAndWhole ==
    /\ [](\A r1, r2 \in Reqs : (InCritical(r1) /\ InCritical(r2)) => r1 = r2)
    /\ [](\A r \in Reqs : InCritical(r) <=> lock = Some(r))
    /\ [][\A r \in Reqs :
            (pc[r] = "get_locked" /\ pc'[r] = "done") =>
                LET s == lastSet[Unwrap(cache_key[r])]
                IN  /\ IsSome(s)
                    /\ Unwrap(response'[r]).achievements = Unwrap(s).value
                    /\ cache[Unwrap(cache_key[r])] =
                          <<Unwrap(s).value, Unwrap(s).at + Unwrap(s).ttl>>
                    /\ clock < Unwrap(s).at + Unwrap(s).ttl]_vars

\* one request holds the lock inside cache_set, on a key that already has an
\* entry, while the other waits at the lock of its cache_get on that key
C9_Witness ==
    \E r1, r2 \in Reqs :
        /\ pc[r1] = "set_locked" /\ lock = Some(r1)
        /\ pc[r2] = "get_wait"
        /\ cache_key[r1] = cache_key[r2]
        /\ Unwrap(cache_key[r1]) \in DOMAIN cache

\* C10: a request that has sent its store query and awaits the reply does not
\* hold the cache lock; whoever holds the lock is inside cache_get or
\* cache_set, one step from releasing it; and the value to cache is computed
\* before the lock is taken for the insert.
C10_NoLockAcrossFetch ==
    \A r \in Reqs :
        /\ pc[r] \in {"query", "fetching"} => lock # Some(r)
        /\ lock = Some(r) => InCritical(r)
        /\ pc[r] \in {"set_wait", "set_locked"} => IsSome(filtered[r])

\* while one request awaits the store's reply, the other holds the lock
\* inside cache_set
C10_Witness ==
    \E r1, r2 \in Reqs :
        /\ pc[r1] = "fetching"
        /\ pc[r2] = "set_locked" /\ lock = Some(r2)

\* C11: while the latest completed cache_set on a request's key (made by a
\* request that completed with the TTL of 1800 s) has not expired at the
\* lookup, the request is answered from the cache with that value and sends
\* no store query; a lookup at or after that expiry goes on to query the store.
C11_HitUntilExpiry ==
    [][\A r \in Reqs :
          (pc[r] = "get_locked" /\ pc'[r] # "get_locked"
           /\ IsSome(lastSet[Unwrap(cache_key[r])])) =>
              LET s == Unwrap(lastSet[Unwrap(cache_key[r])])
              IN  /\ s.ttl = CACHE_TTL
                  /\ clock < s.at + CACHE_TTL =>
                        /\ pc'[r] = "done"
                        /\ fetched'[r] = None
                        /\ response'[r] = Some(SuccessResponse(s.value))
                  /\ clock >= s.at + CACHE_TTL =>
                        /\ pc'[r] = "query"
                        /\ response'[r] = None]_vars

\* a request was answered from the cache, without a store reply, at a later
\* clock value than the cache_set that filled its key
C11_Witness ==
    \E r \in Reqs :
        /\ pc[r] = "done"
        /\ fetched[r] = None
        /\ IsSome(response[r]) /\ Unwrap(response[r]).code = 200
        /\ IsSome(lastSet[Unwrap(cache_key[r])])
        /\ clock > Unwrap(lastSet[Unwrap(cache_key[r])]).at

\* the array a reply carries, if it carries one
ReplyArray(reply) ==
    IF reply.kind = "reply" /\ reply.body.json /\ reply.body.value.t = "array"
    THEN Some(reply.body.value.a) ELSE None

\* the positions of the items of data that parse and apply to u
KeptAt(data, u) == {i \in 1..Len(data) : WellFormed(data[i]) /\ Applies(data[i], u)}

\* the ids of those items, in the order of data
ExpectedIds(data, u) ==
    [j \in 1..Cardinality(KeptAt(data, u)) |->
        data[CHOOSE i \in KeptAt(data, u) :
                 Cardinality({h \in KeptAt(data, u) : h <= i}) = j].m["id"].n]

\* the ids of a JSON array of achievements
JsonIds(v) == [j \in 1..Len(v.a) |-> v.a[j].m["id"].n]

\* C12: items of the fetched array that fail to parse are skipped and nothing
\* else: the request goes on, its list holds the well-formed applicable items
\* in their order, and it ends with a success response of that list, which is
\* also what it stores in the cache.
C12_MalformedSkipped ==
    /\ [](\A r \in Reqs :
            (IsSome(fetched[r]) /\ IsSome(ReplyArray(Unwrap(fetched[r])))) =>
                LET data == Unwrap(ReplyArray(Unwrap(fetched[r])))
                    u == Unwrap(unit_preference[r])
                IN  /\ pc[r] \in {"set_wait", "set_locked", "done"}
                    /\ IsSome(filtered[r])
                    /\ [j \in 1..Len(Unwrap(filtered[r])) |-> Unwrap(filtered[r])[j].id]
                          = ExpectedIds(data, u)
                    /\ pc[r] = "done" =>
                          /\ IsSome(response[r])
                          /\ Unwrap(response[r]).code = 200
                          /\ Unwrap(response[r]).status = "success"
                          /\ JsonIds(Unwrap(response[r]).achievements) = ExpectedIds(data, u))
    /\ [][\A r \in Reqs :
            (pc[r] = "set_locked" /\ pc'[r] = "done") =>
                JsonIds(cache'[Unwrap(cache_key[r])][1])
                    = ExpectedIds(Unwrap(ReplyArray(Unwrap(fetched[r]))),
                                  Unwrap(unit_preference[r]))]_vars

\* a request whose array held an item that does not parse, before an item
\* that applies, ended with a success response listing the later item
C12_Witness ==
    \E r \in Reqs :
        /\ pc[r] = "done"
        /\ IsSome(fetched[r]) /\ IsSome(ReplyArray(Unwrap(fetched[r])))
        /\ \E i \in 1..Len(Unwrap(ReplyArray(Unwrap(fetched[r])))) :
              ~WellFormed(Unwrap(ReplyArray(Unwrap(fetched[r])))[i])
        /\ IsSome(response[r]) /\ Unwrap(response[r]).code = 200
        /\ Len(Unwrap(response[r]).achievements.a) > 0
        /\ Unwrap(unit_preference[r]) = "metric"

\* every achievement of a JSON array is active
AllActive(v) == \A i \in 1..Len(v.a) : v.a[i].m["is_active"] = JBool(TRUE)

\* C13: no response of GET /achievements and no value in the cache holds an
\* achievement whose is_active is false, whatever the store holds.
C13_NoInactiveListed ==
    /\ \A r \in Reqs :
          (IsSome(response[r]) /\ Unwrap(response[r]).code = 200)
              => AllActive(Unwrap(response[r]).achievements)
    /\ \A k \in DOMAIN cache : AllActive(cache[k][1])

\* C17: there is no single-flight: a request that missed sends its own store
\* query whatever the other requests are doing, and each cache_set of the
\* handler leaves its own value and its own expiry under the key, whatever
\* entry was there.
C17_NoSingleFlight ==
    /\ [](\A r \in Reqs : pc[r] = "query" => ENABLED SendQuery(r))
    /\ [][\A r \in Reqs :
            (pc[r] = "set_locked" /\ pc'[r] = "done") =>
                cache'[Unwrap(cache_key[r])]
                    = <<vec_to_value(Unwrap(filtered[r])), clock + CACHE_TTL>>]_vars

\* both requests missed on the same key: one has stored its list and been
\* answered from the store, the other, holding a different list, is inside
\* cache_set about to overwrite the still live entry
C17_Witness ==
    \E r1, r2 \in Reqs :
        /\ r1 # r2
        /\ cache_key[r1] = cache_key[r2]
        /\ pc[r1] = "done" /\ IsSome(fetched[r1]) /\ IsSome(filtered[r1])
        /\ pc[r2] = "set_locked"
        /\ filtered[r1] # filtered[r2]
        /\ Unwrap(cache_key[r1]) \in DOMAIN cache
        /\ cache[Unwrap(cache_key[r1])][1] = vec_to_value(Unwrap(filtered[r1]))
        /\ clock < cache[Unwrap(cache_key[r1])][2]

\* every achievement of a JSON array has no unit system or the system u
AllForUnit(v, u) ==
    \A i \in 1..Len(v.a) : v.a[i].m["unit_preference"] \in {JNull, JStr(u)}

\* C20: the value stored under the key of unit system u is the list the
\* storing request returns to its caller, a hit returns the stored list, and
\* every achievement of a stored list or of a response for u has
\* unit_preference absent or equal to u.
C20_CachedIsReturned ==
    /\ [](\A u \in Units :
            cache_key_of(u) \in DOMAIN cache => AllForUnit(cache[cache_key_of(u)][1], u))
    /\ [](\A r \in Reqs :
            (IsSome(response[r]) /\ Unwrap(response[r]).code = 200)
                => AllForUnit(Unwrap(response[r]).achievements, Unwrap(unit_preference[r])))
    /\ [][\A r \in Reqs :
            /\ (pc[r] = "set_locked" /\ pc'[r] = "done") =>
                  cache'[Unwrap(cache_key[r])][1] = Unwrap(response'[r]).achievements
            /\ (pc[r] = "get_locked" /\ pc'[r] = "done") =>
                  /\ Unwrap(response'[r]).achievements = cache[Unwrap(cache_key[r])][1]
                  /\ Unwrap(response'[r]).achievements
                        = Unwrap(lastSet[Unwrap(cache_key[r])]).value]_vars

\* a request for "imperial" was answered from the cache with a list holding an
\* imperial achievement, while the cache also holds a list for "metric"
C20_Witness ==
    \E r \in Reqs :
        /\ pc[r] = "done" /\ fetched[r] = None
        /\ unit_preference[r] = Some("imperial")
        /\ IsSome(response[r])
        /\ \E i \in 1..Len(Unwrap(response[r]).achievements.a) :
              Unwrap(response[r]).achievements.a[i].m["unit_preference"] = JStr("imperial")
        /\ cache_key_of("metric") \in DOMAIN cache

(***************************************************************************)
(* Further claims about the cache, checked under CacheSpec.                *)
(***************************************************************************)
\* C18: a cache_get call, whether a hit, a miss or on an expired entry, leaves
\* the whole table as it was; an entry, expired or not, stays in the table and
\* changes only by a cache_set on its key.
C18_GetLeavesTable ==
    /\ [](IsSome(lastGet) => cache = Unwrap(lastGet).before)
    /\ [][\A k \in DOMAIN cache :
            /\ k \in DOMAIN cache'
            /\ cache'[k] # cache[k] => lastSet'[k] # lastSet[k]]_vars

\* a cache_get on an entry whose expiry had passed returned None, and the
\* entry is still in the table
C18_Witness ==
    /\ IsSome(lastGet)
    /\ Unwrap(lastGet).ret = None
    /\ Unwrap(lastGet).key \in DOMAIN cache
    /\ Unwrap(lastGet).now > cache[Unwrap(lastGet).key][2]

\* C19: after cache_set(k, v, ttl) the table holds for k the one entry
\* <<v, now + ttl>>, now being the clock the call read, whatever value and
\* expiry k had before; the keys present are the old ones and k, and every
\* other key keeps its entry.
C19_SetOverwrites ==
    /\ [](\A k \in HandlerKeys :
            /\ k \in DOMAIN cache <=> IsSome(lastSet[k])
            /\ IsSome(lastSet[k]) =>
                  cache[k] = <<Unwrap(lastSet[k]).value,
                               Unwrap(lastSet[k]).at + Unwrap(lastSet[k]).ttl>>)
    /\ [][\A k \in HandlerKeys :
            lastSet'[k] # lastSet[k] =>
                /\ Unwrap(lastSet'[k]).at = clock
                /\ cache'[k] = <<Unwrap(lastSet'[k]).value, clock + Unwrap(lastSet'[k]).ttl>>
                /\ DOMAIN cache' = DOMAIN cache \cup {k}
                /\ \A j \in DOMAIN cache \ {k} : cache'[j] = cache[j]]_vars

\* an entry written, after the clock had advanced, with a TTL of zero or less,
\* so with an expiry no later than any an earlier cache_set on the key could
\* have left, while the other key holds a live entry
C19_Witness ==
    \E k \in HandlerKeys :
        /\ IsSome(lastSet[k])
        /\ Unwrap(lastSet[k]).at > 0
        /\ Unwrap(lastSet[k]).ttl <= 0
        /\ cache[k][2] <= clock
        /\ \E j \in DOMAIN cache \ {k} : clock < cache[j][2]

(***************************************************************************)
(* Further claims about check_criteria, checked under CritSpec.            *)
(***************************************************************************)
\* C14: for "first_ruck" check_criteria returns true for every user, session
\* (an empty one too) and user_stats, on a first call and on a later one.
C14_FirstRuckAlways ==
    (IsSome(verdict) /\ CriteriaType = Some("first_ruck"))
        => /\ verdict = Some(TRUE)
           /\ IsSome(recheck) => Unwrap(recheck).ret = TRUE

\* "first_ruck" evaluated to true on an empty session for a user who already
\* has lifetime distance
C14_Witness ==
    /\ verdict = Some(TRUE)
    /\ CriteriaType = Some("first_ruck")
    /\ DOMAIN Unwrap(session) = {}
    /\ "total_distance_km" \in DOMAIN Unwrap(user_stats)

\* C15: a second call on the same criteria and session returns what the first
\* returned, whatever the user_id, the user_stats, the clock and the cache, and
\* no call changes the achievement, the session, the stats or the cache.
C15_PureDeterministic ==
    /\ [](IsSome(recheck) => Unwrap(recheck).ret = Unwrap(verdict))
    /\ [][(verdict' # verdict \/ recheck' # recheck) =>
            /\ achievement' = achievement
            /\ session' = session
            /\ user_stats' = user_stats
            /\ user_id' = user_id
            /\ cache' = cache]_vars

\* the second call, for another user with other stats, later and with the
\* cache filled in between, agreed with the first on a distance criterion
C15_Witness ==
    /\ IsSome(verdict) /\ IsSome(recheck)
    /\ Unwrap(recheck).user_id # Unwrap(user_id)
    /\ Unwrap(recheck).user_stats # Unwrap(user_stats)
    /\ CriteriaType = Some("single_session_distance")
    /\ Unwrap(recheck).ret = TRUE
    /\ clock > 0
    /\ cache # EmptyTable

(***************************************************************************)
(* ResolveSpec: the unlock resolution that calls check_criteria "for each  *)
(* achievement" (line 153).  Its handler and the store's insert are not in *)
(* achievements.rs; they follow spec.md 4.4, 5, 6 and 7.  The evaluation   *)
(* itself is the check_criteria of lines 131-151.                          *)
(***************************************************************************)
\* spec.md 4.4 step 5: the UserAchievement record; its key is the pair
\* (user_id, achievement_key), earned_at and metadata play no part in it
UserAchievement(uid, key) == [user_id |-> uid, achievement_key |-> key]

\* a store whose insert appends whatever it is given
insert_user_achievement_plain(records, record) ==
    [ret |-> "success", records |-> Append(records, record)]

\* spec.md 5 and 6: insert-if-absent keyed by (user_id, achievement_key),
\* answering success or AlreadyExists
insert_user_achievement(records, record) ==
    IF \E i \in 1..Len(records) :
            /\ records[i].user_id = record.user_id
            /\ records[i].achievement_key = record.achievement_key
    THEN [ret |-> "AlreadyExists", records |-> records]
    ELSE [ret |-> "success", records |-> Append(records, record)]

\* spec.md 4.4 step 1: the active achievements fetched for the user, the
\* "first_ruck" kind and a distance kind (the scenario of spec.md 9)
Candidates ==
    << [achievement_key |-> "first_ruck",
        criteria |-> [type |-> JStr("first_ruck")]],
       [achievement_key |-> "first_10k",
        criteria |-> [type |-> JStr("single_session_distance"),
                      target |-> JNum(1)]] >>

\* the sessions resolved: one below the distance target, one above it
ResolveSessions == {[distance_km |-> JNum(n)] : n \in {0, MaxNum}}

\* spec.md 4.4 step 2: the keys of the user's existing UserAchievement records
earned_keys(records, uid) ==
    {records[i].achievement_key :
        i \in {j \in 1..Len(records) : records[j].user_id = uid}}

\* spec.md 4.4 step 4: the candidates from position i on that are not already
\* earned and that check_criteria accepts, in catalogue order
RECURSIVE newly_satisfied(_, _, _, _, _)
newly_satisfied(i, uid, sess, stats, earned) ==
    IF i > Len(Candidates) THEN <<>>
    ELSE LET a == Candidates[i]
             rest == newly_satisfied(i + 1, uid, sess, stats, earned)
         IN  IF a.achievement_key \notin earned
                /\ check_criteria(uid, sess, a, stats)
             THEN <<a.achievement_key>> \o rest
             ELSE rest

\* spec.md 4.4 steps 1-4: read the user's earned set from the store and
\* evaluate the candidates
BeginResolve(s, uid, sess, stats) ==
    /\ resolution[s].pc = "idle"
    /\ LET earned == earned_keys(user_achievements, uid)
       IN  resolution' = [resolution EXCEPT ![s] =
              [pc |-> "persist", user_id |-> Some(uid), session |-> Some(sess),
               earned |-> earned,
               todo |-> newly_satisfied(1, uid, sess, stats, earned),
               newly |-> <<>>]]
    /\ UNCHANGED <<cacheVars, reqVars, critVars, listing, user_achievements>>

\* spec.md 4.4 step 5 and 7: persist the next newly satisfied achievement.
\* A conflict counts as success; a failed write (ok = FALSE) leaves the store
\* alone, is left out of the result and does not stop the batch.
Persist(s, ok) ==
    /\ resolution[s].pc = "persist"
    /\ resolution[s].todo # <<>>
    /\ LET key == Head(resolution[s].todo)
           record == UserAchievement(Unwrap(resolution[s].user_id), key)
           ins == insert_user_achievement(user_achievements, record)
       IN  /\ user_achievements' = IF ok THEN ins.records ELSE user_achievements
           /\ resolution' = [resolution EXCEPT
                 ![s].todo = Tail(@),
                 ![s].newly = IF ok THEN Append(@, key) ELSE @]
    /\ UNCHANGED <<cacheVars, reqVars, critVars, listing>>

\* spec.md 4.4 step 6: return the newly earned achievements
ReturnNewly(s) ==
    /\ resolution[s].pc = "persist"
    /\ resolution[s].todo = <<>>
    /\ resolution' = [resolution EXCEPT ![s].pc = "done"]
    /\ UNCHANGED <<cacheVars, reqVars, critVars, listing, user_achievements>>

\* the resolution's task ends; s may serve another session
FinishResolve(s) ==
    /\ resolution[s].pc = "done"
    /\ resolution' = [resolution EXCEPT ![s] = IdleResolution]
    /\ UNCHANGED <<cacheVars, reqVars, critVars, listing, user_achievements>>

ResolveInit == EmptyCache /\ IdleRequests /\ NoUnlocks /\ NoCriteria /\ listing = None

ResolveNext ==
    \/ \E s \in Resolvers, uid \in UserIds, sess \in ResolveSessions,
          stats \in UserStats : BeginResolve(s, uid, sess, stats)
    \/ \E s \in Resolvers, ok \in BOOLEAN : Persist(s, ok)
    \/ \E s \in Resolvers : ReturnNewly(s)
    \/ \E s \in Resolvers : FinishResolve(s)

ResolveSpec == ResolveInit /\ [][ResolveNext]_vars

\* the store holds the record of (uid, key)
Stored(records, uid, key) ==
    \E i \in 1..Len(records) : records[i] = UserAchievement(uid, key)

====
